---- MODULE Spec2Model ----
(***************************************************************************)
(* Model of scripts/dump_registers.py: the register dumper that scans a    *)
(* PDF manual for register headings and metadata, pairs them, and emits a  *)
(* register_structs! block.                                                *)
(*                                                                         *)
(* Strings that the program inspects character by character (offset        *)
(* literals, permission descriptors) are sequences of one-character        *)
(* strings.  Regex match objects are records of their groups.              *)
(***************************************************************************)
EXTENDS Integers, Sequences, FiniteSets, TLC

VARIABLES
    pc,                     \* position of the run
    error,                  \* the exception that ended the run, or "none"
    pagesLeft,              \* pages of args.p still to be yielded by get_pages
    trmOpens, trmCloses,    \* open()/close() calls on the manual handle
    register_matches,       \* list of heading matches (main, generate_code)
    register_meta_matches,  \* list of metadata matches (main, generate_code)
    inRegs, inMetas,        \* the two lists as they were on entry to generate_code
    registers,              \* generate_code: the parsed registers
    final_offset,           \* generate_code: terminator offset (-1 before it is set)
    code,                   \* generate_code: rendered entries (<<>> before it is set)
    outOpens, outCloses, outWrites,  \* open/close/write calls on the output file
    outFile,                \* the output path on disk
    outFile0,               \* the output path on disk as the run started
    argName, argOffset, argPerms,    \* arguments of a single Register(...) call
    permResult, regResult   \* results of from_str / Register.__new__ on them

vars == <<pc, error, pagesLeft, trmOpens, trmCloses, register_matches,
          register_meta_matches, inRegs, inMetas, registers, final_offset,
          code, outOpens, outCloses, outWrites, outFile, outFile0,
          argName, argOffset, argPerms, permResult, regResult>>

-----------------------------------------------------------------------------
(* Bounds *)

MaxLen == 3        \* longest match list handed to generate_code
MaxPages == 2      \* most pages in args.p
MaxElems == 2      \* most layout elements on a page
MaxDescLen == 3    \* longest enumerated permission descriptor

-----------------------------------------------------------------------------
(* Strings *)

\* str.upper() on one character (the letters the model uses)
UpperChar(c) ==
    CASE c = "r" -> "R" [] c = "w" -> "W" [] c = "o" -> "O" [] c = "c" -> "C"
      [] c = "e" -> "E" [] c = "a" -> "A" [] c = "d" -> "D" [] c = "i" -> "I"
      [] c = "t" -> "T" [] c = "x" -> "X"
      [] OTHER -> c

upper(s) == [i \in 1..Len(s) |-> UpperChar(s[i])]

startswith(s, prefix) ==
    /\ Len(s) >= Len(prefix)
    /\ SubSeq(s, 1, Len(prefix)) = prefix

\* the prefix tuple of line 68, exactly as written in the source
RWPrefixes ==
    { <<"R", "/", "W">>,
      <<"R", "W">>,
      <<"R", "e", "a", "d", "/", "W", "r", "i", "t", "e">>,
      <<"R", "W", "C">> }

\* MemoryPermissions.from_str without the final raise: unknown descriptors
\* fall back to RW
from_str_default(permissions) ==
    LET p == upper(permissions) IN
    IF \E pre \in RWPrefixes : startswith(p, pre) THEN "RW"
    ELSE IF startswith(p, <<"R", "O">>) THEN "RO"
    ELSE IF startswith(p, <<"W", "O">>) THEN "WO"
    ELSE "RW"

\* MemoryPermissions.from_str: the member name, or "ValueError"
from_str(permissions) ==
    LET p == upper(permissions) IN
    IF \E pre \in RWPrefixes : startswith(p, pre) THEN "RW"
    ELSE IF startswith(p, <<"R", "O">>) THEN "RO"
    ELSE IF startswith(p, <<"W", "O">>) THEN "WO"
    ELSE "ValueError"

\* MemoryPermissions.emit_code: the member's value
perms_emit_code(perm) ==
    CASE perm = "RO" -> "ReadOnly<u32>"
      [] perm = "RW" -> "ReadWrite<u32>"
      [] perm = "WO" -> "WriteOnly<u32>"

-----------------------------------------------------------------------------
(* Hexadecimal *)

HexUpper == <<"0", "1", "2", "3", "4", "5", "6", "7",
              "8", "9", "A", "B", "C", "D", "E", "F">>
HexLower == <<"0", "1", "2", "3", "4", "5", "6", "7",
              "8", "9", "a", "b", "c", "d", "e", "f">>

IsHexDigit(c) == \E k \in 1..16 : HexUpper[k] = c \/ HexLower[k] = c

HexVal(c) == (CHOOSE k \in 1..16 : HexUpper[k] = c \/ HexLower[k] = c) - 1

ParseError == -1

RECURSIVE DigitsValue(_)
DigitsValue(ds) ==
    IF ds = <<>> THEN 0
    ELSE 16 * DigitsValue(SubSeq(ds, 1, Len(ds) - 1)) + HexVal(ds[Len(ds)])

\* the digits of a literal once an optional 0x / 0X prefix is dropped
HexBody(s) ==
    IF Len(s) >= 2 /\ s[1] = "0" /\ s[2] \in {"x", "X"}
    THEN SubSeq(s, 3, Len(s))
    ELSE s

\* int(s, 16): the value, or ParseError where Python raises ValueError
int16(s) ==
    LET body == HexBody(s) IN
    IF body = <<>> \/ \E i \in 1..Len(body) : ~IsHexDigit(body[i])
    THEN ParseError
    ELSE DigitsValue(body)

RECURSIVE HexDigitsOf(_)
HexDigitsOf(n) ==
    IF n < 16 THEN <<HexUpper[n + 1]>>
    ELSE Append(HexDigitsOf(n \div 16), HexUpper[(n % 16) + 1])

\* f'0x{n:X}'
FormatHex(n) == <<"0", "x">> \o HexDigitsOf(n)

-----------------------------------------------------------------------------
(* Register *)

NoRegister == [name |-> "", offset |-> <<>>, perms |-> ""]

\* Register.__new__: exc is "none" and reg the new tuple, or exc is the
\* exception raised by int() or from_str
RegisterNew(name, offset, perms) ==
    LET n == int16(offset) IN
    IF n = ParseError THEN [exc |-> "ValueError", reg |-> NoRegister]
    ELSE LET p == from_str(perms) IN
         IF p = "ValueError" THEN [exc |-> "ValueError", reg |-> NoRegister]
         ELSE [exc |-> "none",
               reg |-> [name |-> name, offset |-> FormatHex(n), perms |-> p]]

\* Register.from_regex_match
from_regex_match(register, register_meta) ==
    RegisterNew(register.group2, register_meta.group1, register_meta.group2)

\* Register.emit_code: the parts interpolated into the entry
reg_emit_code(reg) ==
    [kind |-> "field", offset |-> reg.offset, name |-> reg.name,
     ty |-> perms_emit_code(reg.perms)]

\* the terminator entry of line 149
TerminatorEntry(n) ==
    [kind |-> "end", offset |-> FormatHex(n), name |-> "@END", ty |-> "@END"]

-----------------------------------------------------------------------------
(* Lists *)

\* list.pop() (the last element) where the code calls pop(0)
popLast(list) ==
    [item |-> list[Len(list)], rest |-> SubSeq(list, 1, Len(list) - 1)]

\* list.pop(0) on a non-empty list: the element removed and the list left
pop0(list) ==
    [item |-> Head(list), rest |-> Tail(list)]

\* the sort key of line 154
OffsetKey(reg) == int16(reg.offset)

\* insert reg after every element whose key is not greater (stable)
RECURSIVE InsertByKey(_, _)
InsertByKey(reg, seq) ==
    IF seq = <<>> THEN <<reg>>
    ELSE IF OffsetKey(Head(seq)) <= OffsetKey(reg)
         THEN <<Head(seq)>> \o InsertByKey(reg, Tail(seq))
         ELSE <<reg>> \o seq

RECURSIVE StableSort(_)
StableSort(seq) ==
    IF seq = <<>> THEN <<>>
    ELSE InsertByKey(seq[Len(seq)], StableSort(SubSeq(seq, 1, Len(seq) - 1)))

\* the registers left in discovery order
sorted_unsorted(regs) == regs

\* sorted(registers, key=lambda reg: int(reg.offset, 16))
sorted(regs) == StableSort(regs)

\* the precondition of line 135 dropped
LengthsMatch_unchecked(rm, mm) == TRUE

\* the asserted condition of line 135
LengthsMatch(rm, mm) == Len(rm) = Len(mm)

\* line 148 with an empty list read as offset 0 instead of raising
FinalOffset_empty_ok(regs) ==
    IF regs = <<>> THEN [exc |-> "none", val |-> 4]
    ELSE [exc |-> "none", val |-> int16(regs[Len(regs)].offset) + 4]

\* line 148: registers[-1] raises IndexError on an empty list
FinalOffset(regs) ==
    IF regs = <<>> THEN [exc |-> "IndexError", val |-> -1]
    ELSE [exc |-> "none", val |-> int16(regs[Len(regs)].offset) + 4]

\* lines 152-157: the sorted field entries followed by the terminator
RenderCode(regs, final) ==
    LET s == sorted(regs) IN
    Append([i \in 1..Len(s) |-> reg_emit_code(s[i])], TerminatorEntry(final))

-----------------------------------------------------------------------------
(* Page layouts *)

NoMatch == [found |-> FALSE]

\* LTTextBoxHorizontal whose text gives the two search results
TextBox(heading, meta) == [isText |-> TRUE, heading |-> heading, meta |-> meta]

\* any other layout element
OtherElement == [isText |-> FALSE, heading |-> NoMatch, meta |-> NoMatch]

\* REGISTER_PATTERN match; digitsOnly: group(0) fully matches (?:\d+\n)*
HeadingMatch(name, digitsOnly) ==
    [found |-> TRUE, digitsOnly |-> digitsOnly, group2 |-> name]

\* REGISTER_META_PATTERN match
MetaMatch(offset, perms) ==
    [found |-> TRUE, group1 |-> offset, group2 |-> perms]

\* extract_registers
RECURSIVE extract_registers(_)
extract_registers(layout) ==
    IF layout = <<>> THEN [registers |-> <<>>, register_metas |-> <<>>]
    ELSE LET element == Head(layout)
             rest == extract_registers(Tail(layout))
             keepReg == /\ element.isText
                        /\ element.heading.found
                        /\ ~element.heading.digitsOnly
             keepMeta == element.isText /\ element.meta.found
         IN [registers |->
                 (IF keepReg THEN <<element.heading>> ELSE <<>>) \o rest.registers,
             register_metas |->
                 (IF keepMeta THEN <<element.meta>> ELSE <<>>) \o rest.register_metas]

-----------------------------------------------------------------------------
(* Inputs *)

Names == {"CLK_OUT_ENB", "CLK_OUT_DIS"}

\* offset literals the metadata pattern can capture ([0-9a-fA-Fx]+)
OffsetLits ==
    { <<"0", "x", "3", "0">>,      \* 0x30
      <<"0", "x", "1", "0">>,      \* 0x10
      <<"3", "0">>,                \* 30: no prefix, the same value as 0x30
      <<"0", "x", "1", "c">>,      \* 0x1c: lower-case digit
      <<"0", "x">>,                \* 0x: a prefix and no digits
      <<"x">> }                    \* x: no digits at all

DescAlphabet == {"R", "r", "W", "w", "O", "o", "/", "C"}

LongDescriptors ==
    { <<"R", "e", "a", "d", "/", "W", "r", "i", "t", "e">>,
      <<"R", "E", "A", "D", "/", "W", "R", "I", "T", "E">>,
      <<"r", "e", "a", "d", "/", "w", "r", "i", "t", "e">>,
      <<"R", "e", "a", "d">> }

\* permission descriptors the metadata pattern can capture ([\w\/]+)
Descriptors ==
    LongDescriptors \cup
    UNION { [1..n -> DescAlphabet] : n \in 1..MaxDescLen }

\* metadata matches handed to generate_code
Metas ==
    { MetaMatch(<<"0", "x", "3", "0">>, <<"R", "/", "W">>),
      MetaMatch(<<"0", "x", "1", "0">>, <<"R", "O">>),
      MetaMatch(<<"3", "0">>, <<"W", "O">>),
      MetaMatch(<<"0", "x", "1", "c">>, <<"r", "w">>),
      MetaMatch(<<"0", "x", "1", "0">>,
                <<"R", "e", "a", "d", "/", "W", "r", "i", "t", "e">>),
      MetaMatch(<<"0", "x", "2", "0">>, <<"X", "X">>),
      MetaMatch(<<"x">>, <<"R", "O">>) }

Headings == { HeadingMatch(n, FALSE) : n \in Names }

SeqsUpTo(S, n) == UNION { [1..k -> S] : k \in 0..n }

\* layout elements a page can hold
Elements ==
    { OtherElement,
      TextBox(NoMatch, NoMatch),
      TextBox(HeadingMatch("CLK_OUT_ENB", FALSE),
              MetaMatch(<<"0", "x", "3", "0">>, <<"R", "/", "W">>)),
      TextBox(HeadingMatch("CLK_OUT_DIS", FALSE), NoMatch),
      TextBox(NoMatch, MetaMatch(<<"0", "x", "1", "0">>, <<"R", "O">>)),
      TextBox(HeadingMatch("34", TRUE), NoMatch),
      TextBox(HeadingMatch("CLK_OUT_ENB", FALSE),
              MetaMatch(<<"0", "x", "2", "0">>, <<"X", "X">>)) }

Layouts == SeqsUpTo(Elements, MaxElems)

\* the output path before the run: no file, or a file from an earlier run
NoFile == [exists |-> FALSE, content |-> <<>>]
StaleFile == [exists |-> TRUE, content |-> <<TerminatorEntry(0)>>]

UnsetRegResult == [exc |-> "unset", reg |-> NoRegister]

-----------------------------------------------------------------------------
(* Initial states *)

NoUnitCall ==
    /\ argName = ""
    /\ argOffset = <<>>
    /\ argPerms = <<>>
    /\ permResult = "unset"
    /\ regResult = UnsetRegResult

GenLocalsUnset ==
    /\ registers = <<>>
    /\ final_offset = -1
    /\ code = <<>>
    /\ outOpens = 0
    /\ outCloses = 0
    /\ outWrites = 0

\* the run as main() starts
Init ==
    /\ pc = "main_open"
    /\ error = "none"
    /\ pagesLeft \in 1..MaxPages
    /\ trmOpens = 0
    /\ trmCloses = 0
    /\ register_matches = <<>>
    /\ register_meta_matches = <<>>
    /\ inRegs = <<>>
    /\ inMetas = <<>>
    /\ GenLocalsUnset
    /\ outFile \in {NoFile, StaleFile}
    /\ outFile0 = outFile
    /\ NoUnitCall

\* the run as generate_code is entered (line 131), the manual closed
InitGen ==
    /\ pc = "gen_assert"
    /\ error = "none"
    /\ pagesLeft = 0
    /\ trmOpens = 1
    /\ trmCloses = 1
    /\ register_matches \in SeqsUpTo(Headings, MaxLen)
    /\ register_meta_matches \in SeqsUpTo(Metas, MaxLen)
    /\ inRegs = register_matches
    /\ inMetas = register_meta_matches
    /\ GenLocalsUnset
    /\ outFile \in {NoFile, StaleFile}
    /\ outFile0 = outFile
    /\ NoUnitCall

\* a single Register(name, offset, perms) call
InitReg ==
    /\ pc = "reg_start"
    /\ error = "none"
    /\ pagesLeft = 0
    /\ trmOpens = 0
    /\ trmCloses = 0
    /\ register_matches = <<>>
    /\ register_meta_matches = <<>>
    /\ inRegs = <<>>
    /\ inMetas = <<>>
    /\ GenLocalsUnset
    /\ outFile = NoFile
    /\ outFile0 = outFile
    /\ argName \in Names
    /\ argOffset \in OffsetLits
    /\ argPerms \in Descriptors
    /\ permResult = "unset"
    /\ regResult = UnsetRegResult

-----------------------------------------------------------------------------
(* main *)

unitVars == <<argName, argOffset, argPerms, permResult, regResult>>
genVars == <<registers, final_offset, code, outOpens, outCloses, outWrites, outFile>>
mainVars == <<pagesLeft, trmOpens, trmCloses, outFile0>>
listVars == <<register_matches, register_meta_matches, inRegs, inMetas>>

\* line 171: open(args.manual, 'rb'), which raises when the path is unreadable
OpenManual ==
    /\ pc = "main_open"
    /\ \E readable \in BOOLEAN :
         IF readable
         THEN /\ trmOpens' = trmOpens + 1
              /\ pc' = "main_pages"
              /\ error' = error
         ELSE /\ trmOpens' = trmOpens
              /\ pc' = "error"
              /\ error' = "OSError"
    /\ UNCHANGED <<pagesLeft, trmCloses, outFile0, listVars, genVars, unitVars>>

\* lines 177-185: one page is laid out and its matches are appended
ProcessPage ==
    /\ pc = "main_pages"
    /\ pagesLeft > 0
    /\ \E layout \in Layouts :
         LET found == extract_registers(layout) IN
         /\ register_matches' = register_matches \o found.registers
         /\ register_meta_matches' = register_meta_matches \o found.register_metas
    /\ pagesLeft' = pagesLeft - 1
    /\ UNCHANGED <<pc, error, trmOpens, trmCloses, outFile0, inRegs, inMetas, genVars,
                   unitVars>>

\* lines 177-180: get_pages or process_page raises; nothing catches it
PageRaises ==
    /\ pc = "main_pages"
    /\ pagesLeft > 0
    /\ pc' = "error"
    /\ error' = "PDFException"
    /\ UNCHANGED <<mainVars, listVars, genVars, unitVars>>

\* line 187: trm.close() after the last page
CloseManual ==
    /\ pc = "main_pages"
    /\ pagesLeft = 0
    /\ trmCloses' = trmCloses + 1
    /\ pc' = "main_call"
    /\ UNCHANGED <<error, pagesLeft, trmOpens, outFile0, listVars, genVars, unitVars>>

\* line 190 and line 132: generate_code is entered with main's two lists
CallGenerate ==
    /\ pc = "main_call"
    /\ inRegs' = register_matches
    /\ inMetas' = register_meta_matches
    /\ registers' = <<>>
    /\ pc' = "gen_assert"
    /\ UNCHANGED <<error, mainVars, register_matches, register_meta_matches,
                   final_offset, code, outOpens, outCloses, outWrites, outFile,
                   unitVars>>

-----------------------------------------------------------------------------
(* generate_code *)

\* line 135 with the output file opened before anything is validated
GenAssert_opens_first ==
    /\ pc = "gen_assert"
    /\ outOpens' = outOpens + 1
    /\ outFile' = [exists |-> TRUE, content |-> <<>>]
    /\ IF Len(register_matches) = Len(register_meta_matches)
       THEN /\ pc' = "gen_loop"
            /\ error' = error
       ELSE /\ pc' = "error"
            /\ error' = "AssertionError"
    /\ UNCHANGED <<mainVars, listVars, registers, final_offset, code,
                   outCloses, outWrites, unitVars>>

\* line 135: the assert on the two lengths
GenAssert ==
    /\ pc = "gen_assert"
    /\ IF LengthsMatch(register_matches, register_meta_matches)
       THEN /\ pc' = "gen_loop"
            /\ error' = error
       ELSE /\ pc' = "error"
            /\ error' = "AssertionError"
    /\ UNCHANGED <<mainVars, listVars, genVars, unitVars>>

\* lines 138-145: one pass of the while loop.  pop(0) on an empty list raises
\* IndexError, which ends the loop; an exception from Register(...) is not
\* caught and ends the run.
GenLoop ==
    /\ pc = "gen_loop"
    /\ IF register_matches = <<>>
       THEN /\ pc' = "gen_terminator"
            /\ UNCHANGED <<error, register_matches, register_meta_matches, registers>>
       ELSE LET r == pop0(register_matches) IN
            IF register_meta_matches = <<>>
            THEN /\ register_matches' = r.rest
                 /\ pc' = "gen_terminator"
                 /\ UNCHANGED <<error, register_meta_matches, registers>>
            ELSE LET m == pop0(register_meta_matches)
                     new == from_regex_match(r.item, m.item)
                 IN /\ register_matches' = r.rest
                    /\ register_meta_matches' = m.rest
                    /\ IF new.exc = "none"
                       THEN /\ registers' = Append(registers, new.reg)
                            /\ UNCHANGED <<pc, error>>
                       ELSE /\ pc' = "error"
                            /\ error' = new.exc
                            /\ UNCHANGED registers
    /\ UNCHANGED <<mainVars, inRegs, inMetas, final_offset, code,
                   outOpens, outCloses, outWrites, outFile, unitVars>>

\* lines 148-149: the terminator offset from registers[-1]
GenTerminator ==
    /\ pc = "gen_terminator"
    /\ LET f == FinalOffset(registers) IN
       IF f.exc = "none"
       THEN /\ final_offset' = f.val
            /\ pc' = "gen_render"
            /\ error' = error
       ELSE /\ pc' = "error"
            /\ error' = f.exc
            /\ UNCHANGED final_offset
    /\ UNCHANGED <<mainVars, listVars, registers, code,
                   outOpens, outCloses, outWrites, outFile, unitVars>>

\* lines 152-157: the entries in offset order, then the terminator
GenRender ==
    /\ pc = "gen_render"
    /\ code' = RenderCode(registers, final_offset)
    /\ pc' = "gen_open"
    /\ UNCHANGED <<error, mainVars, listVars, registers, final_offset,
                   outOpens, outCloses, outWrites, outFile, unitVars>>

\* line 161: open(output, 'w') creates or truncates the file
GenOpen ==
    /\ pc = "gen_open"
    /\ outOpens' = outOpens + 1
    /\ outFile' = [exists |-> TRUE, content |-> <<>>]
    /\ pc' = "gen_write"
    /\ UNCHANGED <<error, mainVars, listVars, registers, final_offset, code,
                   outCloses, outWrites, unitVars>>

\* line 162: f.write(code)
GenWrite ==
    /\ pc = "gen_write"
    /\ outWrites' = outWrites + 1
    /\ outFile' = [exists |-> TRUE, content |-> outFile.content \o code]
    /\ pc' = "gen_close"
    /\ UNCHANGED <<error, mainVars, listVars, registers, final_offset, code,
                   outOpens, outCloses, unitVars>>

\* line 161: leaving the with block closes the file
GenClose ==
    /\ pc = "gen_close"
    /\ outCloses' = outCloses + 1
    /\ pc' = "done"
    /\ UNCHANGED <<error, mainVars, listVars, registers, final_offset, code,
                   outOpens, outWrites, outFile, unitVars>>

-----------------------------------------------------------------------------
(* A single Register(...) call *)

\* line 86 on its own: MemoryPermissions.from_str(perms)
ClassifyCall ==
    /\ pc = "reg_start"
    /\ permResult' = from_str(argPerms)
    /\ pc' = "reg_classified"
    /\ UNCHANGED <<error, mainVars, listVars, genVars,
                   argName, argOffset, argPerms, regResult>>

\* lines 84-88: Register(name, offset, perms)
ConstructCall ==
    /\ pc = "reg_classified"
    /\ regResult' = RegisterNew(argName, argOffset, argPerms)
    /\ pc' = "reg_done"
    /\ UNCHANGED <<error, mainVars, listVars, genVars,
                   argName, argOffset, argPerms, permResult>>

-----------------------------------------------------------------------------
(* Specifications *)

NextGen ==
    \/ GenAssert
    \/ GenLoop
    \/ GenTerminator
    \/ GenRender
    \/ GenOpen
    \/ GenWrite
    \/ GenClose

Next ==
    \/ OpenManual
    \/ ProcessPage
    \/ PageRaises
    \/ CloseManual
    \/ CallGenerate
    \/ NextGen

NextReg ==
    \/ ClassifyCall
    \/ ConstructCall

\* a whole run of main()
Spec == Init /\ [][Next]_vars

\* generate_code on any two match lists
SpecGen == InitGen /\ [][NextGen]_vars

\* Register construction on any name, offset literal and descriptor
SpecReg == InitReg /\ [][NextReg]_vars

-----------------------------------------------------------------------------
(* Properties *)

\* d starts with prefix when letter case is ignored
StartsWithAnyCase(d, prefix) == startswith(upper(d), upper(prefix))

KnownRW(d) == \E pre \in RWPrefixes : StartsWithAnyCase(d, pre)
KnownRO(d) == StartsWithAnyCase(d, <<"R", "O">>)
KnownWO(d) == StartsWithAnyCase(d, <<"W", "O">>)
KnownDescriptor(d) == KnownRW(d) \/ KnownRO(d) \/ KnownWO(d)

Classified == pc \in {"reg_classified", "reg_done"}

AfterTerminator == pc \in {"gen_render", "gen_open", "gen_write", "gen_close", "done"}

AfterLoop == pc = "gen_terminator" \/ AfterTerminator

MaxOf(S) == CHOOSE x \in S : \A y \in S : y <= x

InputOffsets == { int16(inMetas[i].group1) : i \in 1..Len(inMetas) }

\* the field entries of the rendered code (all entries but the terminator)
FieldEntries == SubSeq(code, 1, Len(code) - 1)

\* what generate_code renders for two lists whose pairs all parse
RenderOfInput(hs, ms) ==
    LET regs == [i \in 1..Len(hs) |-> from_regex_match(hs[i], ms[i]).reg]
    IN RenderCode(regs, FinalOffset(regs).val)

\* C1: once the terminator is computed, its offset is the largest register
\* offset plus 4, whatever the discovery order.
C1_TerminatorIsMaxPlus4 ==
    AfterTerminator => final_offset = MaxOf(InputOffsets) + 4

\* C2: the rendered entries and terminator of a finished run are those of
\* every run on a permutation of the same heading/metadata pairs.
C2_OrderIndependent ==
    pc = "done" =>
        \A p \in Permutations(1..Len(inRegs)) :
            RenderOfInput([i \in 1..Len(inRegs) |-> inRegs[p[i]]],
                          [i \in 1..Len(inMetas) |-> inMetas[p[i]]]) = code

\* C3 as stated: adjacent field entries have strictly increasing offsets,
\* also when two metadata matches carry the same offset.
C3_StrictlyIncreasing ==
    pc = "done" =>
        \A i \in 1..(Len(FieldEntries) - 1) :
            int16(FieldEntries[i].offset) < int16(FieldEntries[i + 1].offset)

\* C3 amended: adjacent field entries have non-decreasing offsets, and
\* strictly increasing ones when the registers' offsets are pairwise distinct.
C3_NonDecreasing ==
    pc = "done" =>
        /\ Len(FieldEntries) = Len(inMetas)
        /\ \A i \in 1..(Len(FieldEntries) - 1) :
               int16(FieldEntries[i].offset) <= int16(FieldEntries[i + 1].offset)
        /\ Cardinality(InputOffsets) = Len(inMetas) =>
               \A i \in 1..(Len(FieldEntries) - 1) :
                   int16(FieldEntries[i].offset) < int16(FieldEntries[i + 1].offset)

\* three registers discovered out of offset order, two on the same offset
C3_Witness ==
    /\ pc = "done"
    /\ Len(FieldEntries) = 3
    /\ int16(inMetas[1].group1) > int16(inMetas[2].group1)
    /\ Cardinality(InputOffsets) = 2

\* C4: a descriptor that starts, in any letter case, with a known prefix is
\* classified as that prefix's class.
C4_KnownPrefixClassified ==
    Classified =>
        /\ KnownRW(argPerms) => permResult = "RW"
        /\ KnownRO(argPerms) => permResult = "RO"
        /\ KnownWO(argPerms) => permResult = "WO"

\* C5: a descriptor that starts with no known prefix makes from_str raise,
\* and Register(...) on it raises instead of returning a register.
C5_UnknownDescriptorFails ==
    ~KnownDescriptor(argPerms) =>
        /\ Classified => permResult = "ValueError"
        /\ pc = "reg_done" =>
               regResult.exc = "ValueError" /\ regResult.reg = NoRegister

\* an unknown descriptor next to a parsable offset was rejected
C5_Witness ==
    /\ pc = "reg_done"
    /\ ~KnownDescriptor(argPerms)
    /\ int16(argOffset) # ParseError
    /\ permResult = "ValueError"
    /\ regResult.exc = "ValueError"

\* C6: when the two lists differ in length, generate_code fails on the
\* assert with nothing popped and no register built.
C6_MismatchFailsBeforeBuild ==
    Len(inRegs) # Len(inMetas) =>
        /\ pc \in {"gen_assert", "error"}
        /\ pc = "error" => error = "AssertionError"
        /\ registers = <<>>
        /\ register_matches = inRegs
        /\ register_meta_matches = inMetas

\* three headings and two metadata matches were rejected
C6_Witness ==
    /\ pc = "error"
    /\ error = "AssertionError"
    /\ Len(inRegs) = 3
    /\ Len(inMetas) = 2

InputMismatch == Len(inRegs) # Len(inMetas)
InputUnknownPermission ==
    \E i \in 1..Len(inMetas) : ~KnownDescriptor(inMetas[i].group2)
InputBadOffset ==
    \E i \in 1..Len(inMetas) : int16(inMetas[i].group1) = ParseError
InputEmpty == inRegs = <<>> /\ inMetas = <<>>

\* C7: on a pairing mismatch, an unknown permission, an unparsable offset or
\* an empty input the output path is never opened and the file stays as it
\* was; a run that ends in any error leaves the file as it was; a run that
\* succeeds opens, writes and closes it once, with every field entry and the
\* terminator.
C7_AllOrNothing ==
    /\ outOpens <= 1
    /\ outWrites <= 1
    /\ (InputMismatch \/ InputUnknownPermission \/ InputBadOffset \/ InputEmpty) =>
           /\ pc # "done"
           /\ outOpens = 0
           /\ outWrites = 0
           /\ outFile = outFile0
    /\ pc = "error" =>
           /\ outOpens = 0
           /\ outFile = outFile0
    /\ pc = "done" =>
           /\ outOpens = 1
           /\ outWrites = 1
           /\ outCloses = 1
           /\ outFile = [exists |-> TRUE, content |-> code]
           /\ Len(code) = Len(inRegs) + 1
           /\ code[Len(code)].kind = "end"
           /\ \A i \in 1..Len(inRegs) : code[i].kind = "field"

\* a run that failed on its second register left an earlier file untouched
C7_Witness ==
    /\ pc = "error"
    /\ error = "ValueError"
    /\ Len(registers) = 1
    /\ InputUnknownPermission
    /\ outFile0 = StaleFile
    /\ outFile = StaleFile

\* C8: with both lists empty generate_code fails with IndexError; no
\* terminator is computed, nothing is rendered and nothing is written.
C8_EmptyInputFails ==
    InputEmpty =>
        /\ pc \in {"gen_assert", "gen_loop", "gen_terminator", "error"}
        /\ pc = "error" => error = "IndexError"
        /\ final_offset = -1
        /\ code = <<>>
        /\ outOpens = 0
        /\ outFile = outFile0

\* the empty input was rejected
C8_Witness ==
    /\ pc = "error"
    /\ error = "IndexError"
    /\ InputEmpty

\* C9: when the run has ended, normally or with an error, each handle was
\* opened at most once and closed as often as it was opened.
C9_HandlesReleased ==
    pc \in {"done", "error"} =>
        /\ trmOpens <= 1
        /\ trmCloses = trmOpens
        /\ outOpens <= 1
        /\ outCloses = outOpens

====
